---------------------------- MODULE Spec2Model ----------------------------
(***************************************************************************)
(* A model of ganttifier's conversion core (utils/ganttConverter.ts): the  *)
(* validator (validateTask, validateSection, validateGanttData) and the    *)
(* emitter (convertTask, convertSection, convertConfig,                    *)
(* convertToMermaidSyntax), and of the Mermaid component                    *)
(* (components/Mermaid.tsx) that hands the text to the mermaid library.    *)
(*                                                                         *)
(* Representation.  A JavaScript string is a sequence of one-character     *)
(* strings, so that trim(), the regular expressions and the template       *)
(* literals are computed character by character.  An optional value        *)
(* (undefined or a value) is a sequence of length at most one: <<>> is     *)
(* undefined, <<v>> is v.  A duration is a tagged record (undefined, a     *)
(* string, or an object with value and unit).  An error message is the     *)
(* record of its template and of the values interpolated into it.  An      *)
(* element of a sections or tasks array is an object or null: the field    *)
(* isNull tells which.  A TypeError raised inside a call is carried        *)
(* outward as the value Thrown; a call that raises ends in pc = "threw"    *)
(* and returns nothing.                                                    *)
(***************************************************************************)
EXTENDS Integers, Sequences, FiniteSets, TLC

VARIABLES
  pc,           \* "build", "ready": the caller holds an input; then the call that returned
  task,         \* the GanttTask given to validateTask
  sectionName,  \* the section name given to validateTask
  data,         \* the GanttData given to validateGanttData / convertToMermaidSyntax
  taskError,    \* what validateTask returned
  dataError,    \* what validateGanttData returned
  result,       \* what convertToMermaidSyntax returned
  line,         \* what convertTask returned
  config,       \* the GanttConfig given to convertConfig
  directives    \* what convertConfig returned

configVars == <<config, directives>>

converterVars ==
  <<pc, task, sectionName, data, taskError, dataError, result, line, configVars>>

VARIABLES
  isInitialized,  \* the module-level flag of Mermaid.tsx
  calls,          \* the functions of the mermaid library called so far, in order
  pending,        \* the mermaid.render calls not yet settled, with their arguments
  instances,      \* the Mermaid component instances: props, refs and state
  attempts        \* how many times an element was mounted or given another chart

mermaidVars == <<isInitialized, calls, pending, instances, attempts>>

vars == <<converterVars, mermaidVars>>

----------------------------------------------------------------------------
(* Bounds of the model *)

\* longest status list
MaxStatusLen == 2
\* longest free-form duration string
MaxDurLen == 3
\* largest Duration.value (the smallest is -1)
MaxValue == 2
\* most sections of a schedule
MaxSections == 2
\* most tasks of a schedule, over all its sections
MaxTasks == 2
\* most Mermaid component instances
MaxInstances == 2
\* most render attempts of Mermaid components: mounts and changes of a chart prop
MaxAttempts == 2

----------------------------------------------------------------------------
(* Optional values and strings *)

None == <<>>
Some(v) == <<v>>
IsSome(o) == Len(o) = 1
Get(o) == o[1]

Digit == {"0", "1", "2", "3", "4", "5", "6", "7", "8", "9"}
DigitChars == <<"0", "1", "2", "3", "4", "5", "6", "7", "8", "9">>

\* the characters String.prototype.trim removes (those the inputs here use)
WhiteSpace == {" ", "\t", "\n"}

\* s.trim() === ""
TrimIsEmpty(s) == \A i \in 1..Len(s) : s[i] \in WhiteSpace

\* !s for a string s: only the empty string is falsy
FalsyStr(s) == s = <<>>

\* !o for an optional string: undefined and "" are falsy
FalsyOpt(o) == ~IsSome(o) \/ Get(o) = <<>>

RECURSIVE NatToStr(_)
NatToStr(n) ==
  IF n < 10 THEN <<DigitChars[n + 1]>>
  ELSE NatToStr(n \div 10) \o <<DigitChars[(n % 10) + 1]>>

\* `${n}` for an integer n
NumToStr(n) == IF n < 0 THEN <<"-">> \o NatToStr(-n) ELSE NatToStr(n)

\* parts.join(sep)
RECURSIVE Join(_, _)
Join(parts, sep) ==
  IF Len(parts) = 0 THEN <<>>
  ELSE IF Len(parts) = 1 THEN parts[1]
  ELSE parts[1] \o sep \o Join(Tail(parts), sep)

\* all sequences over S of length at most n
SeqUpTo(S, n) == UNION {[1..k -> S] : k \in 0..n}

----------------------------------------------------------------------------
(* Types (types/gantt.ts) *)

DurationUnit == {<<"d">>, <<"w">>, <<"h">>, <<"m">>}

Done == <<"d", "o", "n", "e">>
Active == <<"a", "c", "t", "i", "v", "e">>
Crit == <<"c", "r", "i", "t">>
Milestone == <<"m", "i", "l", "e", "s", "t", "o", "n", "e">>
TaskStatus == {Done, Active, Crit, Milestone}

\* task.duration: undefined, a string, or a Duration object
NoDuration == [kind |-> "undefined", str |-> <<>>, value |-> 0, unit |-> <<>>]
StrDuration(s) == [kind |-> "string", str |-> s, value |-> 0, unit |-> <<>>]
ObjDuration(v, u) == [kind |-> "object", str |-> <<>>, value |-> v, unit |-> u]

GanttTask(id, name, start, duration, status, after) ==
  [id |-> id, name |-> name, start |-> start, duration |-> duration,
   status |-> status, after |-> after, isNull |-> FALSE]

GanttSection(name, tasks) == [name |-> name, tasks |-> tasks, isNull |-> FALSE]

\* null in the place of a task or of a section
NullTask == [GanttTask(<<>>, <<>>, <<>>, NoDuration, None, None) EXCEPT !.isNull = TRUE]
NullSection == [GanttSection(<<>>, None) EXCEPT !.isNull = TRUE]

GanttConfig(title, dateFormat, axisFormat, tickInterval, excludes, excludeDates, enableClick, displayMode) ==
  [title |-> title, dateFormat |-> dateFormat, axisFormat |-> axisFormat,
   tickInterval |-> tickInterval, excludes |-> excludes,
   excludeDates |-> excludeDates, enableClick |-> enableClick,
   displayMode |-> displayMode]

GanttData(cfg, sections) == [config |-> cfg, sections |-> sections]

\* ConversionResult: syntax and error are optional
ConversionResult(success, syntax, error) ==
  [success |-> success, syntax |-> syntax, error |-> error]

\* An error message: its template and the values interpolated into it
Message(template, taskId, section, detail) ==
  [template |-> template, taskId |-> taskId, section |-> section, detail |-> detail]

----------------------------------------------------------------------------
(* Literal text of the emitter *)

Indent == <<" ", " ", " ", " ">>
Sep == <<" ", ":", " ">>
CommaSpace == <<",", " ">>
NewLine == <<"\n">>
AfterPrefix == <<"a", "f", "t", "e", "r", " ">>
GanttHeader == <<"g", "a", "n", "t", "t">>
SectionPrefix == <<" ", " ", " ", " ", "s", "e", "c", "t", "i", "o", "n", " ">>
TitlePrefix == <<" ", " ", " ", " ", "t", "i", "t", "l", "e", " ">>
DateFormatPrefix == <<" ", " ", " ", " ", "d", "a", "t", "e", "F", "o", "r", "m", "a", "t", " ">>
AxisFormatPrefix == <<" ", " ", " ", " ", "a", "x", "i", "s", "F", "o", "r", "m", "a", "t", " ">>
TickIntervalPrefix == <<" ", " ", " ", " ", "t", "i", "c", "k", "I", "n", "t", "e", "r", "v", "a", "l", " ">>
ExcludesPrefix == <<" ", " ", " ", " ", "e", "x", "c", "l", "u", "d", "e", "s", " ">>

----------------------------------------------------------------------------
(* The emitter *)

\* `${duration.value}${duration.unit}`
formatDuration(duration) == NumToStr(duration.value) \o duration.unit

\* a faulty variant: the character class lacks h, /^\d+[dwm]$/
isDurationString_noHours(value) ==
  /\ Len(value) >= 2
  /\ \A i \in 1..(Len(value) - 1) : value[i] \in Digit
  /\ value[Len(value)] \in {"d", "w", "m"}

\* /^\d+[dwmh]$/.test(value)
isDurationString(value) ==
  /\ Len(value) >= 2
  /\ \A i \in 1..(Len(value) - 1) : value[i] \in Digit
  /\ value[Len(value)] \in {"d", "w", "m", "h"}

\* /^\d{4}-\d{2}-\d{2}$/.test(value)
isDateString(value) ==
  /\ Len(value) = 10
  /\ \A i \in {1, 2, 3, 4, 6, 7, 9, 10} : value[i] \in Digit
  /\ value[5] = "-"
  /\ value[8] = "-"

formatTaskStatus(status) ==
  IF ~IsSome(status) \/ Len(Get(status)) = 0 THEN <<>>
  ELSE Join(Get(status), CommaSpace)

\* a faulty variant: a non-empty start date is preferred to the dependency
convertTask_startFirst(t) ==
  LET statusStr == formatTaskStatus(t.status)
      statusPart == IF FalsyStr(statusStr) THEN <<>> ELSE <<statusStr>>
      startPart == IF ~FalsyStr(t.start) \/ FalsyOpt(t.after) THEN t.start
                   ELSE AfterPrefix \o Get(t.after)
      durationPart == IF t.duration.kind = "object" THEN formatDuration(t.duration)
                      ELSE t.duration.str
      parts == <<t.name>> \o statusPart \o <<t.id, startPart, durationPart>>
  IN  Indent \o Join(parts, Sep)

convertTask(t) ==
  LET statusStr == formatTaskStatus(t.status)
      statusPart == IF FalsyStr(statusStr) THEN <<>> ELSE <<statusStr>>
      startPart == IF ~FalsyOpt(t.after) THEN AfterPrefix \o Get(t.after)
                   ELSE t.start
      durationPart == IF t.duration.kind = "object" THEN formatDuration(t.duration)
                      ELSE IF isDurationString(t.duration.str) THEN t.duration.str
                      ELSE t.duration.str
      parts == <<t.name>> \o statusPart \o <<t.id, startPart, durationPart>>
  IN  Indent \o Join(parts, Sep)

convertSection(section) ==
  <<SectionPrefix \o section.name>>
    \o [i \in 1..Len(Get(section.tasks)) |-> convertTask(Get(section.tasks)[i])]

\* a faulty variant: the display mode is emitted as a directive too
convertConfig_displayMode(cfg) ==
  (IF ~FalsyOpt(cfg.title) THEN <<TitlePrefix \o Get(cfg.title)>> ELSE <<>>)
  \o (IF ~FalsyOpt(cfg.dateFormat)
        THEN <<DateFormatPrefix \o Get(cfg.dateFormat)>> ELSE <<>>)
  \o (IF ~FalsyOpt(cfg.axisFormat)
        THEN <<AxisFormatPrefix \o Get(cfg.axisFormat)>> ELSE <<>>)
  \o (IF ~FalsyOpt(cfg.tickInterval)
        THEN <<TickIntervalPrefix \o Get(cfg.tickInterval)>> ELSE <<>>)
  \o (IF IsSome(cfg.excludes) /\ Len(Get(cfg.excludes)) > 0
        THEN <<ExcludesPrefix \o Join(Get(cfg.excludes), CommaSpace)>> ELSE <<>>)
  \o (IF ~FalsyOpt(cfg.displayMode)
        THEN <<Indent \o <<"d", "i", "s", "p", "l", "a", "y", "M", "o", "d", "e", " ">>
                 \o Get(cfg.displayMode)>>
        ELSE <<>>)

convertConfig(cfg) ==
  (IF ~FalsyOpt(cfg.title) THEN <<TitlePrefix \o Get(cfg.title)>> ELSE <<>>)
  \o (IF ~FalsyOpt(cfg.dateFormat)
        THEN <<DateFormatPrefix \o Get(cfg.dateFormat)>> ELSE <<>>)
  \o (IF ~FalsyOpt(cfg.axisFormat)
        THEN <<AxisFormatPrefix \o Get(cfg.axisFormat)>> ELSE <<>>)
  \o (IF ~FalsyOpt(cfg.tickInterval)
        THEN <<TickIntervalPrefix \o Get(cfg.tickInterval)>> ELSE <<>>)
  \o (IF IsSome(cfg.excludes) /\ Len(Get(cfg.excludes)) > 0
        THEN <<ExcludesPrefix \o Join(Get(cfg.excludes), CommaSpace)>> ELSE <<>>)


----------------------------------------------------------------------------
(* The validator *)

\* the message templates; {x} marks an interpolated value
MissingIdMsg == "Task in section \"{sectionName}\" is missing an ID"
MissingNameMsg == "Task \"{id}\" in section \"{sectionName}\" is missing a name"
MissingStartMsg == "Task \"{id}\" in section \"{sectionName}\" is missing a start date or dependency"
MissingDurationMsg == "Task \"{id}\" in section \"{sectionName}\" is missing a duration"
InvalidFormatMsg == "Task \"{id}\" has invalid duration format: \"{duration}\""
InvalidValueMsg == "Task \"{id}\" has invalid duration value: {value}"
InvalidUnitMsg == "Task \"{id}\" has invalid duration unit: {unit}"
SectionNoNameMsg == "Section is missing a name"
SectionNoTasksMsg == "Section \"{name}\" has no tasks"
DuplicateIdMsg == "Duplicate task ID found: \"{id}\""
NonExistentMsg == "Task \"{id}\" depends on non-existent task: \"{after}\""
DataRequiredMsg == "Gantt data is required"
TypeErrorMsg == "TypeError: Cannot read properties of null"

\* the outcome of reading a property of null
Thrown == Some(Message(TypeErrorMsg, <<>>, <<>>, <<>>))
NoSectionsMsg == "Gantt data must have at least one section"

\* a faulty variant: the id check is left out
missingId_never(t) == FALSE

\* !task.id || task.id.trim() === ""
missingId(t) == FalsyStr(t.id) \/ TrimIsEmpty(t.id)

\* !task.name || task.name.trim() === ""
missingName(t) == FalsyStr(t.name) \/ TrimIsEmpty(t.name)

\* a faulty variant: a dependency does not stand in for the start date
missingStart_ignoresAfter(t) == FalsyStr(t.start) \/ TrimIsEmpty(t.start)

\* a faulty variant: the start-or-dependency check is left out
missingStart_never(t) == FALSE

\* a faulty variant: a blank dependency does not stand in for the start date
missingStart_blankAfter(t) ==
  /\ FalsyOpt(t.after) \/ TrimIsEmpty(Get(t.after))
  /\ FalsyStr(t.start) \/ TrimIsEmpty(t.start)

\* !task.after && (!task.start || task.start.trim() === "")
missingStart(t) == FalsyOpt(t.after) /\ (FalsyStr(t.start) \/ TrimIsEmpty(t.start))

\* !task.duration: undefined and "" are falsy, an object never is
missingDuration(t) ==
  \/ t.duration.kind = "undefined"
  \/ t.duration.kind = "string" /\ FalsyStr(t.duration.str)

\* a faulty variant: a shorthand string whose digits are all zero is refused too
invalidDurationFormat_zeroRefused(t) ==
  /\ t.duration.kind = "string"
  /\ ~(/\ isDurationString(t.duration.str)
       /\ \E i \in 1..(Len(t.duration.str) - 1) : t.duration.str[i] # "0")
  /\ ~isDateString(t.duration.str)

\* typeof task.duration === "string" && !isDurationString(...) && !/^\d{4}-\d{2}-\d{2}$/.test(...)
invalidDurationFormat(t) ==
  /\ t.duration.kind = "string"
  /\ ~isDurationString(t.duration.str)
  /\ ~isDateString(t.duration.str)

\* a faulty variant: only the first tag is looked at, task.status?.[0] === "milestone"
isMilestone_firstTag(t) ==
  IsSome(t.status) /\ Len(Get(t.status)) > 0 /\ Get(t.status)[1] = Milestone

\* task.status?.includes("milestone")
isMilestone(t) ==
  IsSome(t.status) /\ \E i \in 1..Len(Get(t.status)) : Get(t.status)[i] = Milestone

invalidDurationValue(t) ==
  t.duration.value < 0 \/ (~isMilestone(t) /\ t.duration.value = 0)

invalidDurationUnit(t) == t.duration.unit \notin DurationUnit

\* a faulty variant: the name is checked before the id
validateTask_nameBeforeId(t, section) ==
  IF t.isNull THEN Thrown
  ELSE IF missingName(t) THEN
    Some(Message(MissingNameMsg, t.id, section, <<>>))
  ELSE IF missingId(t) THEN
    Some(Message(MissingIdMsg, <<>>, section, <<>>))
  ELSE IF missingStart(t) THEN
    Some(Message(MissingStartMsg, t.id, section, <<>>))
  ELSE IF missingDuration(t) THEN
    Some(Message(MissingDurationMsg, t.id, section, <<>>))
  ELSE IF invalidDurationFormat(t) THEN
    Some(Message(InvalidFormatMsg, t.id, <<>>, t.duration.str))
  ELSE IF t.duration.kind = "object" /\ invalidDurationValue(t) THEN
    Some(Message(InvalidValueMsg, t.id, <<>>, NumToStr(t.duration.value)))
  ELSE IF t.duration.kind = "object" /\ invalidDurationUnit(t) THEN
    Some(Message(InvalidUnitMsg, t.id, <<>>, t.duration.unit))
  ELSE None

\* returns None (null) or Some(message)
validateTask(t, section) ==
  IF t.isNull THEN Thrown
  ELSE IF missingId(t) THEN
    Some(Message(MissingIdMsg, <<>>, section, <<>>))
  ELSE IF missingName(t) THEN
    Some(Message(MissingNameMsg, t.id, section, <<>>))
  ELSE IF missingStart(t) THEN
    Some(Message(MissingStartMsg, t.id, section, <<>>))
  ELSE IF missingDuration(t) THEN
    Some(Message(MissingDurationMsg, t.id, section, <<>>))
  ELSE IF invalidDurationFormat(t) THEN
    Some(Message(InvalidFormatMsg, t.id, <<>>, t.duration.str))
  ELSE IF t.duration.kind = "object" /\ invalidDurationValue(t) THEN
    Some(Message(InvalidValueMsg, t.id, <<>>, NumToStr(t.duration.value)))
  ELSE IF t.duration.kind = "object" /\ invalidDurationUnit(t) THEN
    Some(Message(InvalidUnitMsg, t.id, <<>>, t.duration.unit))
  ELSE None

\* the loop over section.tasks: the first task error, or None
RECURSIVE firstTaskError(_, _)
firstTaskError(tasks, section) ==
  IF Len(tasks) = 0 THEN None
  ELSE LET taskError1 == validateTask(Head(tasks), section)
       IN  IF IsSome(taskError1) THEN taskError1
           ELSE firstTaskError(Tail(tasks), section)

\* a faulty variant: the tasks list is looked at before the name
validateSection_tasksBeforeName(section) ==
  IF section.isNull THEN Thrown
  ELSE IF ~IsSome(section.tasks) \/ Len(Get(section.tasks)) = 0 THEN
    Some(Message(SectionNoTasksMsg, <<>>, section.name, <<>>))
  ELSE IF FalsyStr(section.name) \/ TrimIsEmpty(section.name) THEN
    Some(Message(SectionNoNameMsg, <<>>, <<>>, <<>>))
  ELSE firstTaskError(Get(section.tasks), section.name)

validateSection(section) ==
  IF section.isNull THEN Thrown
  ELSE IF FalsyStr(section.name) \/ TrimIsEmpty(section.name) THEN
    Some(Message(SectionNoNameMsg, <<>>, <<>>, <<>>))
  ELSE IF ~IsSome(section.tasks) \/ Len(Get(section.tasks)) = 0 THEN
    Some(Message(SectionNoTasksMsg, <<>>, section.name, <<>>))
  ELSE firstTaskError(Get(section.tasks), section.name)

\* the inner loop of validateGanttData over one section's tasks:
\* the first task whose id is in taskIds is a duplicate; else its id is added
RECURSIVE scanDuplicates(_, _)
scanDuplicates(tasks, taskIds) ==
  IF Len(tasks) = 0 THEN [error |-> None, taskIds |-> taskIds]
  ELSE IF Head(tasks).id \in taskIds THEN
    [error |-> Some(Message(DuplicateIdMsg, Head(tasks).id, <<>>, <<>>)),
     taskIds |-> taskIds]
  ELSE scanDuplicates(Tail(tasks), taskIds \cup {Head(tasks).id})

\* a faulty variant: a section's ids are scanned before the section is validated
scanSection_duplicatesFirst(section, taskIds) ==
  LET dups == IF IsSome(section.tasks) THEN scanDuplicates(Get(section.tasks), taskIds)
              ELSE [error |-> None, taskIds |-> taskIds]
      sectionError == validateSection(section)
  IN  IF IsSome(dups.error) THEN dups
      ELSE IF IsSome(sectionError) THEN [error |-> sectionError, taskIds |-> taskIds]
      ELSE dups

\* a faulty variant: the set of seen ids starts empty in every section
scanSection_freshIds(section, taskIds) ==
  LET sectionError == validateSection(section)
  IN  IF IsSome(sectionError) THEN [error |-> sectionError, taskIds |-> taskIds]
      ELSE LET own == scanDuplicates(Get(section.tasks), {})
           IN  [error |-> own.error, taskIds |-> taskIds \cup own.taskIds]

\* one iteration of the first loop of validateGanttData
scanSection(section, taskIds) ==
  LET sectionError == validateSection(section)
  IN  IF IsSome(sectionError) THEN [error |-> sectionError, taskIds |-> taskIds]
      ELSE scanDuplicates(Get(section.tasks), taskIds)

\* the first loop of validateGanttData
RECURSIVE scanSections(_, _)
scanSections(sections, taskIds) ==
  IF Len(sections) = 0 THEN [error |-> None, taskIds |-> taskIds]
  ELSE LET r == scanSection(Head(sections), taskIds)
       IN  IF IsSome(r.error) THEN r
           ELSE scanSections(Tail(sections), r.taskIds)

\* the tasks of all sections, in scan order
RECURSIVE allTasks(_)
allTasks(sections) ==
  IF Len(sections) = 0 THEN <<>>
  ELSE Get(Head(sections).tasks) \o allTasks(Tail(sections))

\* a faulty variant: a task that depends on itself is reported as well
danglingAfter_orSelf(t, taskIds) ==
  ~FalsyOpt(t.after) /\ (Get(t.after) \notin taskIds \/ Get(t.after) = t.id)

\* task.after && !taskIds.has(task.after)
danglingAfter(t, taskIds) == ~FalsyOpt(t.after) /\ Get(t.after) \notin taskIds

\* a faulty variant: a dependency must name a task that comes earlier
RECURSIVE dependenciesOnEarlier(_, _)
dependenciesOnEarlier(tasks, seen) ==
  IF Len(tasks) = 0 THEN None
  ELSE IF danglingAfter(Head(tasks), seen) THEN
    Some(Message(NonExistentMsg, Head(tasks).id, <<>>, Get(Head(tasks).after)))
  ELSE dependenciesOnEarlier(Tail(tasks), seen \cup {Head(tasks).id})

checkDependencies_seenSoFar(tasks, taskIds) == dependenciesOnEarlier(tasks, {})

\* the second loop of validateGanttData
RECURSIVE checkDependencies(_, _)
checkDependencies(tasks, taskIds) ==
  IF Len(tasks) = 0 THEN None
  ELSE IF danglingAfter(Head(tasks), taskIds) THEN
    Some(Message(NonExistentMsg, Head(tasks).id, <<>>, Get(Head(tasks).after)))
  ELSE checkDependencies(Tail(tasks), taskIds)

\* a faulty variant: the dependencies are checked before the duplicate ids are reported
validateGanttData_dependenciesFirst(d) ==
  IF ~IsSome(d) THEN
    Some(Message(DataRequiredMsg, <<>>, <<>>, <<>>))
  ELSE IF ~IsSome(Get(d).sections) \/ Len(Get(Get(d).sections)) = 0 THEN
    Some(Message(NoSectionsMsg, <<>>, <<>>, <<>>))
  ELSE LET scan == scanSections(Get(Get(d).sections), {})
       IN  IF IsSome(scan.error) /\ Get(scan.error).template # DuplicateIdMsg THEN scan.error
           ELSE LET tasks == allTasks(Get(Get(d).sections))
                    ids == {tasks[i].id : i \in 1..Len(tasks)}
                    dependencyError == checkDependencies(tasks, ids)
                IN  IF IsSome(dependencyError) THEN dependencyError ELSE scan.error

\* d is None (null) or Some(GanttData)
validateGanttData(d) ==
  IF ~IsSome(d) THEN
    Some(Message(DataRequiredMsg, <<>>, <<>>, <<>>))
  ELSE IF ~IsSome(Get(d).sections) \/ Len(Get(Get(d).sections)) = 0 THEN
    Some(Message(NoSectionsMsg, <<>>, <<>>, <<>>))
  ELSE LET scan == scanSections(Get(Get(d).sections), {})
       IN  IF IsSome(scan.error) THEN scan.error
           ELSE checkDependencies(allTasks(Get(Get(d).sections)), scan.taskIds)

\* the lines of a valid schedule
RECURSIVE sectionLines(_)
sectionLines(sections) ==
  IF Len(sections) = 0 THEN <<>>
  ELSE convertSection(Head(sections)) \o sectionLines(Tail(sections))

\* a faulty variant: a failed result also carries the text produced so far
convertToMermaidSyntax_syntaxOnFailure(d) ==
  LET validationError == validateGanttData(d)
  IN  IF IsSome(validationError) THEN
        ConversionResult(FALSE, Some(GanttHeader), validationError)
      ELSE
        LET lines == <<GanttHeader>>
                     \o (IF IsSome(Get(d).config) THEN convertConfig(Get(Get(d).config))
                         ELSE <<>>)
                     \o sectionLines(Get(Get(d).sections))
        IN  ConversionResult(TRUE, Some(Join(lines, NewLine)), None)

convertToMermaidSyntax(d) ==
  LET validationError == validateGanttData(d)
  IN  IF IsSome(validationError) THEN
        ConversionResult(FALSE, None, validationError)
      ELSE
        LET lines == <<GanttHeader>>
                     \o (IF IsSome(Get(d).config) THEN convertConfig(Get(Get(d).config))
                         ELSE <<>>)
                     \o sectionLines(Get(Get(d).sections))
        IN  ConversionResult(TRUE, Some(Join(lines, NewLine)), None)

----------------------------------------------------------------------------
(* The inputs *)

Date1 == <<"2", "0", "2", "4", "-", "0", "1", "-", "0", "1">>
Date2 == <<"2", "0", "2", "4", "-", "0", "1", "-", "1", "5">>

IdA == <<"a">>
IdB == <<"b">>
IdZ == <<"z">>
NameN == <<"N">>
NameS == <<"S">>
UnitD == <<"d">>
UnitX == <<"x">>

\* status lists: absent, or any list of at most MaxStatusLen of these tags
StatusLists == {None} \cup {Some(st) : st \in SeqUpTo({Done, Crit, Milestone}, MaxStatusLen)}

Values == -1..MaxValue
Units == DurationUnit \cup {UnitX}

\* free-form strings, and the strings one edit away from a date
DurChars == {"0", "7", "d", "h", "x", "-", " "}
EditChars == {"7", "x", "-"}
DateEdits ==
  {Date2}
  \cup {[Date2 EXCEPT ![i] = c] : i \in 1..Len(Date2), c \in EditChars}
  \cup {SubSeq(Date2, 1, i - 1) \o SubSeq(Date2, i + 1, Len(Date2)) : i \in 1..Len(Date2)}
  \cup {Date2 \o <<c>> : c \in EditChars \cup {"\n"}}
  \cup {<<c>> \o Date2 : c \in EditChars}
DurationStrings == SeqUpTo(DurChars, MaxDurLen) \cup DateEdits

\* tasks for validateTask and convertTask, in three sets: every combination of
\* the field checks with a few durations; every Duration object and status list
\* on tasks whose other fields are valid; every duration string on such tasks
FieldTasks ==
  {GanttTask(id, name, start, dur, status, after) :
     id \in {<<>>, <<" ">>, IdA}, name \in {<<>>, <<" ">>, NameN},
     start \in {<<>>, <<" ">>, Date1},
     dur \in {NoDuration, StrDuration(<<>>), StrDuration(<<"7", "d">>), StrDuration(<<"x">>)}
             \cup {ObjDuration(v, u) : v \in Values, u \in {UnitD, UnitX}},
     status \in {None, Some(<<Milestone>>)},
     after \in {None, Some(<<>>), Some(<<" ">>), Some(IdB)}}

ObjDurationTasks ==
  {GanttTask(IdA, NameN, start, ObjDuration(v, u), status, after) :
     start \in {<<>>, Date1}, v \in Values, u \in Units,
     status \in StatusLists, after \in {None, Some(IdB)}}

StrDurationTasks ==
  {GanttTask(IdA, NameN, start, StrDuration(str), status, after) :
     start \in {<<>>, Date1}, str \in DurationStrings,
     status \in {None, Some(<<Milestone>>)}, after \in {None, Some(IdB)}}

DefaultTask == GanttTask(IdA, NameN, Date1, ObjDuration(1, UnitD), None, None)

\* tasks of the schedules, with two ids: without a dependency, with or without
\* a start; without a start, depending on a, on b (tasks of the schedule or
\* not) or on z (never one); with a start and a dependency on b
ScheduleTasks ==
  {GanttTask(id, NameN, start, ObjDuration(1, UnitD), None, None) :
     id \in {IdA, IdB}, start \in {<<>>, Date1}}
  \cup {GanttTask(id, NameN, <<>>, ObjDuration(1, UnitD), None, Some(after)) :
          id \in {IdA, IdB}, after \in {IdA, IdB, IdZ}}
  \cup {GanttTask(id, NameN, Date1, ObjDuration(1, UnitD), None, Some(IdB)) :
          id \in {IdA, IdB}}

SectionNames == {<<>>, NameS}

\* a section name with a line break in it
NameTwoLines == <<"S", "\n", "x">>

\* the config {}
EmptyConfig == GanttConfig(None, None, None, None, None, None, None, None)

Configs == {Some([EmptyConfig EXCEPT !.title = title]) : title \in {None, Some(<<"T">>)}}

Saturday == <<"s", "a", "t", "u", "r", "d", "a", "y">>
Sunday == <<"s", "u", "n", "d", "a", "y">>
Compact == <<"c", "o", "m", "p", "a", "c", "t">>

\* configs for convertConfig: every field absent or present, the strings also
\* empty, the excludes list of every length up to two
ConfigInputs ==
  {GanttConfig(title, dateFormat, axisFormat, tickInterval, excludes,
               excludeDates, enableClick, displayMode) :
     title \in {None, Some(<<>>), Some(<<"T">>)},
     dateFormat \in {None, Some(<<"Y">>)},
     axisFormat \in {None, Some(<<"%", "d">>)},
     tickInterval \in {None, Some(<<"1", "w", "e", "e", "k">>)},
     excludes \in {None, Some(<<>>), Some(<<Sunday>>), Some(<<Sunday, Saturday>>)},
     excludeDates \in {None, Some(<<Date1>>)},
     enableClick \in {None, Some(FALSE), Some(TRUE)},
     displayMode \in {None, Some(Compact)}}

ValidSection == GanttSection(NameS, Some(<<DefaultTask>>))

\* the schedule a caller starts from to add sections and tasks
EmptySchedule == Some(GanttData(None, Some(<<>>)))

\* a valid task with a status list
TaggedTask == GanttTask(IdB, NameN, Date1, ObjDuration(1, UnitD), Some(<<Crit, Done>>), None)

\* a string of white space only
OneSpace == <<" ">>

\* a schedule of one section with one task
OneTask(name, t) == Some(GanttData(None, Some(<<GanttSection(name, Some(<<t>>))>>)))

\* schedules of one task with white space only in the section name, the id,
\* the name, the start, or the dependency
BlankSchedules ==
  {OneTask(OneSpace, DefaultTask),
   OneTask(NameS, GanttTask(OneSpace, NameN, Date1, ObjDuration(1, UnitD), None, None)),
   OneTask(NameS, GanttTask(IdA, OneSpace, Date1, ObjDuration(1, UnitD), None, None)),
   OneTask(NameS, GanttTask(IdA, NameN, OneSpace, ObjDuration(1, UnitD), None, None)),
   OneTask(NameS, GanttTask(IdA, NameN, <<>>, ObjDuration(1, UnitD), None, Some(OneSpace))),
   OneTask(NameS, GanttTask(IdA, NameN, OneSpace, ObjDuration(1, UnitD), None, Some(OneSpace)))}

\* schedules given whole: null, one without a sections list, sections without
\* a tasks list, a valid section under each config, a section whose name
\* has a line break, a task with a status list, and schedules with null in
\* the place of a section or of a task, and the schedules with a blank field
WholeSchedules ==
  {None, Some(GanttData(None, None))}
  \cup {Some(GanttData(None, Some(<<GanttSection(name, None)>>))) : name \in SectionNames}
  \cup {Some(GanttData(None, Some(<<ValidSection, GanttSection(NameS, None)>>)))}
  \cup {Some(GanttData(cfg, Some(<<ValidSection>>))) : cfg \in Configs}
  \cup {Some(GanttData(None, Some(<<GanttSection(NameTwoLines, Some(<<DefaultTask>>))>>)))}
  \cup {Some(GanttData(None, Some(<<GanttSection(NameS, Some(<<DefaultTask, TaggedTask>>))>>)))}
  \cup {Some(GanttData(None, Some(secs))) :
          secs \in {<<NullSection>>, <<ValidSection, NullSection>>,
                    <<GanttSection(NameS, Some(<<NullTask>>))>>,
                    <<GanttSection(NameS, Some(<<DefaultTask, NullTask>>))>>,
                    <<GanttSection(<<>>, None), NullSection>>}}
  \cup BlankSchedules

NoResult == ConversionResult(FALSE, None, None)

----------------------------------------------------------------------------
(* The Mermaid component (components/Mermaid.tsx) *)

FailedMsg ==
  <<"F", "a", "i", "l", "e", "d", " ", "t", "o", " ", "r", "e", "n", "d", "e", "r", " ",
    "d", "i", "a", "g", "r", "a", "m">>

Instances == 1..MaxInstances

\* chart props: empty, and two texts
ChartA == <<"A">>
ChartB == <<"B">>
Charts == {<<>>, ChartA, ChartB}

\* id props: absent or given
IdProps == {None, Some(<<"i">>)}

\* values generateId can return (Math.random decides)
GeneratedIds == {<<"m", "1">>, <<"m", "2">>}

\* what generateId() returns in id || generateId(): it is not called when an id
\* is given
generateId(id) == IF ~FalsyOpt(id) THEN {<<>>} ELSE GeneratedIds

\* what mermaid.render can reject with: an Error with a message, or another value
ParseError == <<"P">>
Rejections ==
  {[isError |-> TRUE, message |-> m] : m \in {<<>>, ParseError}}
  \cup {[isError |-> FALSE, message |-> <<>>]}

\* the svg mermaid.render resolves with for a chart
SvgOf(chart) == <<"<">> \o chart \o <<">">>

\* a pending mermaid.render(id, chart): the k-th call to the library, made by
\* renderChart of instance inst, which awaits it
RenderCall(k, i, id, chart) == [k |-> k, inst |-> i, id |-> id, chart |-> chart]

\* a component instance: the props chart and id, the ref uniqueId, the state
\* error and renderedSvg
NotMounted ==
  [mounted |-> FALSE, chart |-> <<>>, id |-> None, uniqueId |-> <<>>,
   error |-> None, renderedSvg |-> <<>>]
Mounted(chart, id, uniqueId) ==
  [mounted |-> TRUE, chart |-> chart, id |-> id, uniqueId |-> uniqueId,
   error |-> None, renderedSvg |-> <<>>]

\* containerRef.current is set: the div carrying the ref is rendered, which it
\* is unless the error branch is
containerRef(c) == c.mounted /\ FalsyOpt(c.error)

\* id || generateId(), generateId returning gen
idOrGenerated(id, gen) == IF ~FalsyOpt(id) THEN Get(id) ELSE gen

\* a faulty variant: the flag is not set after mermaid.initialize
initializeMermaid_flagNotSet(lib) ==
  IF ~lib.isInitialized
  THEN [isInitialized |-> FALSE, calls |-> Append(lib.calls, "initialize")]
  ELSE lib

\* initializeMermaid, on the module-level flag and the calls made so far
initializeMermaid(lib) ==
  IF ~lib.isInitialized
  THEN [isInitialized |-> TRUE, calls |-> Append(lib.calls, "initialize")]
  ELSE lib

\* renderChart of instance i, c being its props, refs and state: up to the await
renderChart(i, c) ==
  IF ~containerRef(c) \/ FalsyStr(c.chart) THEN
    /\ instances' = [instances EXCEPT ![i] = c]
    /\ UNCHANGED <<isInitialized, calls, pending>>
  ELSE
    LET lib == initializeMermaid([isInitialized |-> isInitialized, calls |-> calls])
    IN  /\ isInitialized' = lib.isInitialized
        /\ calls' = Append(lib.calls, "render")
        /\ pending' = pending \cup {RenderCall(Len(lib.calls) + 1, i, c.uniqueId, c.chart)}
        /\ instances' = [instances EXCEPT ![i] = [c EXCEPT !.error = None]]

\* a Mermaid element is mounted: first render, then the effect
\* (the instances are numbered in the order of their mounting)
Mount(i, chart, id, gen) ==
  /\ ~instances[i].mounted
  /\ \A j \in 1..(i - 1) : instances[j].mounted
  /\ attempts < MaxAttempts
  /\ attempts' = attempts + 1
  /\ renderChart(i, Mounted(chart, id, idOrGenerated(id, gen)))
  /\ UNCHANGED converterVars

\* the parent re-renders the element with another chart: the effect runs again
ChangeChart(i, chart, gen) ==
  /\ instances[i].mounted
  /\ chart # instances[i].chart
  /\ attempts < MaxAttempts
  /\ attempts' = attempts + 1
  /\ renderChart(i, [instances[i] EXCEPT !.chart = chart,
                                         !.uniqueId = idOrGenerated(instances[i].id, gen)])
  /\ UNCHANGED converterVars

\* a mermaid.render call resolves: renderChart continues after the await
RenderResolves(call) ==
  /\ call \in pending
  /\ pending' = pending \ {call}
  /\ instances' = [instances EXCEPT ![call.inst].renderedSvg = SvgOf(call.chart)]
  /\ UNCHANGED <<isInitialized, calls, attempts, converterVars>>

\* a faulty variant: the fixed text whatever was caught
errorMessage_alwaysFixed(err) == FailedMsg

\* err instanceof Error ? err.message : "Failed to render diagram"
errorMessage(err) == IF err.isError THEN err.message ELSE FailedMsg

\* a mermaid.render call rejects: the catch block of renderChart
RenderRejects(call, err) ==
  /\ call \in pending
  /\ pending' = pending \ {call}
  /\ instances' = [instances EXCEPT ![call.inst].error = Some(errorMessage(err)),
                                    ![call.inst].renderedSvg = <<>>]
  /\ UNCHANGED <<isInitialized, calls, attempts, converterVars>>

\* the module is loaded and no element is mounted
NothingMounted ==
  /\ isInitialized = FALSE
  /\ calls = <<>>
  /\ pending = {}
  /\ instances = [i \in Instances |-> NotMounted]
  /\ attempts = 0

----------------------------------------------------------------------------
(* The GanttChart component (components/GanttChart.tsx) *)

\* data props: a valid schedule, a second one with another text, a schedule
\* without sections, one with a task id used twice, one with null in the place
\* of a section, and null
TaggedSchedule == Some(GanttData(None, Some(<<GanttSection(NameS, Some(<<DefaultTask, TaggedTask>>))>>)))
DuplicateSchedule == Some(GanttData(None, Some(<<ValidSection, ValidSection>>)))
NullSectionSchedule == Some(GanttData(None, Some(<<NullSection>>)))
GanttInputs ==
  {Some(GanttData(None, Some(<<ValidSection>>))), TaggedSchedule, EmptySchedule,
   DuplicateSchedule, NullSectionSchedule, None}

\* the Mermaid element of a GanttChart is instance 1
Child == 1

\* the Mermaid element leaves the page: the calls it awaits settle into an
\* unmounted component, where setError and setRenderedSvg change nothing
Unmount(i) ==
  /\ instances' = [instances EXCEPT ![i] = NotMounted]
  /\ pending' = {call \in pending : call.inst # i}
  /\ UNCHANGED <<isInitialized, calls>>

\* GanttChart is rendered with the data prop d, for the first time or with
\* another value than before: useMemo calls convertToMermaidSyntax(d), which
\* raises, fails or succeeds; on success the Mermaid element gets the syntax as
\* its chart and no id, generateId returning gen
RenderGanttChart(d, gen) ==
  /\ pc \in {"ready", "ganttError", "ganttChart"}
  /\ pc = "ready" \/ d # data
  /\ attempts < MaxAttempts
  /\ attempts' = attempts + 1
  /\ data' = d
  /\ LET conversionResult == convertToMermaidSyntax(d)
     IN  IF conversionResult.error = Thrown THEN
           /\ pc' = "threw"
           /\ UNCHANGED result
           /\ Unmount(Child)
         ELSE IF ~conversionResult.success THEN
           /\ pc' = "ganttError"
           /\ result' = conversionResult
           /\ Unmount(Child)
         ELSE
           /\ pc' = "ganttChart"
           /\ result' = conversionResult
           /\ LET chart == Get(conversionResult.syntax)
              IN  IF ~instances[Child].mounted THEN
                    renderChart(Child, Mounted(chart, None, idOrGenerated(None, gen)))
                  ELSE IF chart # instances[Child].chart THEN
                    renderChart(Child, [instances[Child] EXCEPT
                                          !.chart = chart,
                                          !.uniqueId = idOrGenerated(None, gen)])
                  ELSE UNCHANGED <<isInitialized, calls, pending, instances>>
  /\ UNCHANGED <<task, sectionName, taskError, dataError, line, configVars>>

----------------------------------------------------------------------------
(* The calls *)

\* validateTask(task, sectionName) returns
CallValidateTask ==
  /\ pc = "ready"
  /\ LET e == validateTask(task, sectionName)
     IN  IF e = Thrown THEN pc' = "threw" /\ UNCHANGED taskError
         ELSE taskError' = e /\ pc' = "validateTask"
  /\ UNCHANGED <<task, sectionName, data, dataError, result, line, configVars, mermaidVars>>

\* convertTask(task) returns
CallConvertTask ==
  /\ pc = "ready"
  /\ line' = convertTask(task)
  /\ pc' = "convertTask"
  /\ UNCHANGED <<task, sectionName, data, taskError, dataError, result, configVars, mermaidVars>>

\* convertConfig(config) returns
CallConvertConfig ==
  /\ pc = "ready"
  /\ directives' = convertConfig(config)
  /\ pc' = "convertConfig"
  /\ UNCHANGED <<task, sectionName, data, taskError, dataError, result, line, config, mermaidVars>>

\* validateGanttData(data) returns
CallValidateGanttData ==
  /\ pc \in {"build", "ready"}
  /\ LET e == validateGanttData(data)
     IN  IF e = Thrown THEN pc' = "threw" /\ UNCHANGED dataError
         ELSE dataError' = e /\ pc' = "validateGanttData"
  /\ UNCHANGED <<task, sectionName, data, taskError, result, line, configVars, mermaidVars>>

\* a faulty variant: the sections are taken off the schedule as they are converted
CallConvertToMermaidSyntax_consumesSections ==
  /\ pc \in {"build", "ready"}
  /\ LET r == convertToMermaidSyntax(data)
     IN  IF r.error = Thrown THEN pc' = "threw" /\ UNCHANGED <<result, data>>
         ELSE /\ result' = r
              /\ pc' = "convertToMermaidSyntax"
              /\ data' = IF r.success THEN Some([Get(data) EXCEPT !.sections = Some(<<>>)])
                         ELSE data
  /\ UNCHANGED <<task, sectionName, taskError, dataError, line, configVars, mermaidVars>>

\* convertToMermaidSyntax(data) returns, or raises what validateGanttData raised
CallConvertToMermaidSyntax ==
  /\ pc \in {"build", "ready"}
  /\ LET r == convertToMermaidSyntax(data)
     IN  IF r.error = Thrown THEN pc' = "threw" /\ UNCHANGED result
         ELSE result' = r /\ pc' = "convertToMermaidSyntax"
  /\ UNCHANGED <<task, sectionName, data, taskError, dataError, line, configVars, mermaidVars>>

\* the caller appends a section without tasks to the schedule
AddSection(name) ==
  /\ pc = "build"
  /\ Len(Get(Get(data).sections)) < MaxSections
  /\ data' = Some([Get(data) EXCEPT
                     !.sections = Some(Append(Get(@), GanttSection(name, Some(<<>>))))])
  /\ UNCHANGED <<pc, task, sectionName, taskError, dataError, result, line, configVars, mermaidVars>>

\* the caller appends a task to the last section of the schedule
AddTask(t) ==
  /\ pc = "build"
  /\ Len(Get(Get(data).sections)) > 0
  /\ Len(allTasks(Get(Get(data).sections))) < MaxTasks
  /\ LET secs == Get(Get(data).sections)
         last == secs[Len(secs)]
         grown == [last EXCEPT !.tasks = Some(Append(Get(@), t))]
     IN  data' = Some([Get(data) EXCEPT !.sections = Some([secs EXCEPT ![Len(secs)] = grown])])
  /\ UNCHANGED <<pc, task, sectionName, taskError, dataError, result, line, configVars, mermaidVars>>

\* a caller building a schedule, or holding a whole one
Init ==
  /\ \/ pc = "build" /\ data = EmptySchedule
     \/ pc = "ready" /\ data \in WholeSchedules
  /\ task = DefaultTask
  /\ sectionName = NameS
  /\ taskError = None
  /\ dataError = None
  /\ result = NoResult
  /\ line = <<>>
  /\ config = EmptyConfig
  /\ directives = <<>>
  /\ NothingMounted

Next ==
  \/ \E name \in SectionNames : AddSection(name)
  \/ \E t \in ScheduleTasks : AddTask(t)
  \/ CallValidateGanttData
  \/ CallConvertToMermaidSyntax

Spec == Init /\ [][Next]_vars

\* a caller holding a task
InitTask ==
  /\ pc = "ready"
  /\ (task \in FieldTasks \/ task \in ObjDurationTasks \/ task \in StrDurationTasks)
  /\ sectionName = NameS
  /\ data = None
  /\ taskError = None
  /\ dataError = None
  /\ result = NoResult
  /\ line = <<>>
  /\ config = EmptyConfig
  /\ directives = <<>>
  /\ NothingMounted

NextTask == CallValidateTask \/ CallConvertTask

SpecTask == InitTask /\ [][NextTask]_vars

\* a caller holding a config
InitConfig ==
  /\ pc = "ready"
  /\ config \in ConfigInputs
  /\ directives = <<>>
  /\ task = DefaultTask
  /\ sectionName = NameS
  /\ data = None
  /\ taskError = None
  /\ dataError = None
  /\ result = NoResult
  /\ line = <<>>
  /\ NothingMounted

NextConfig == CallConvertConfig

SpecConfig == InitConfig /\ [][NextConfig]_vars

\* a page about to mount Mermaid elements
InitMermaid ==
  /\ NothingMounted
  /\ pc = "ready"
  /\ task = DefaultTask
  /\ sectionName = NameS
  /\ data = None
  /\ taskError = None
  /\ dataError = None
  /\ result = NoResult
  /\ line = <<>>
  /\ config = EmptyConfig
  /\ directives = <<>>

NextMermaid ==
  \/ \E i \in Instances, chart \in Charts, id \in IdProps :
       \E gen \in generateId(id) : Mount(i, chart, id, gen)
  \/ \E i \in Instances, chart \in Charts :
       \E gen \in generateId(instances[i].id) : ChangeChart(i, chart, gen)
  \/ \E call \in pending : RenderResolves(call)
  \/ \E call \in pending, err \in Rejections : RenderRejects(call, err)

SpecMermaid == InitMermaid /\ [][NextMermaid]_vars

\* a page about to render a GanttChart element
InitGantt ==
  /\ NothingMounted
  /\ pc = "ready"
  /\ data = None
  /\ result = NoResult
  /\ task = DefaultTask
  /\ sectionName = NameS
  /\ taskError = None
  /\ dataError = None
  /\ line = <<>>
  /\ config = EmptyConfig
  /\ directives = <<>>

NextGantt ==
  \/ \E d \in GanttInputs, gen \in GeneratedIds : RenderGanttChart(d, gen)
  \/ \E call \in pending : RenderResolves(call)
  \/ \E call \in pending, err \in Rejections : RenderRejects(call, err)

SpecGantt == InitGantt /\ [][NextGantt]_vars

----------------------------------------------------------------------------
(* Properties of validateGanttData and convertToMermaidSyntax (Spec) *)

Validated == pc = "validateGanttData"
Converted == pc = "convertToMermaidSyntax"
Accepted == Validated /\ ~IsSome(dataError)

\* the sections of the schedule in hand (only where it has a sections list)
Sections == Get(Get(data).sections)
HasSections == IsSome(data) /\ IsSome(Get(data).sections)

\* every section and every task passes the structural checks
StructureOk(secs) == \A i \in 1..Len(secs) : validateSection(secs[i]) = None

\* the tasks in scan order (only where every section has a tasks list)
Flat == allTasks(Sections)

\* task j repeats the id of a task before it in scan order
Repeats(tasks, j) == \E i \in 1..(j - 1) : tasks[i].id = tasks[j].id

\* task j has an `after` that is the id of no task
Dangles(tasks, j) ==
  /\ IsSome(tasks[j].after)
  /\ Get(tasks[j].after) # <<>>
  /\ \A i \in 1..Len(tasks) : tasks[i].id # Get(tasks[j].after)

First(S) == CHOOSE j \in S : \A k \in S : j <= k

RejectedAs(template) ==
  Validated /\ IsSome(dataError) /\ Get(dataError).template = template

\* C1: convertToMermaidSyntax returns success with a syntax string and no error
\* exactly when validateGanttData returns null, and otherwise failure with the
\* validator's message and no syntax; a result never carries both.
C1_ResultFollowsValidator ==
  Converted =>
    LET v == validateGanttData(data)
    IN  /\ result.success <=> v = None
        /\ result.success => IsSome(result.syntax) /\ ~IsSome(result.error)
        /\ ~result.success => result.error = v /\ IsSome(v) /\ ~IsSome(result.syntax)
        /\ ~(IsSome(result.syntax) /\ IsSome(result.error))

\* a conversion that failed on a schedule with sections, carrying the
\* validator's message
C1_Witness ==
  /\ Converted /\ ~result.success /\ HasSections /\ Len(Sections) = 2
  /\ IsSome(result.error) /\ Get(result.error).template = DuplicateIdMsg

\* C2, as claimed: whenever validateGanttData returns the duplicate-ID error,
\* every section and every task of the whole schedule passes its structural checks.
C2_DuplicateOnlyAfterAllStructure ==
  RejectedAs(DuplicateIdMsg) => StructureOk(Sections)

\* C2, amended: the duplicate-ID scan of a section follows the structural checks
\* of that section and of the sections before it only: whenever the duplicate-ID
\* error is returned, the reported id repeats in some section k, and sections
\* 1..k pass their structural checks.
C2_DuplicateAfterStructureSoFar ==
  RejectedAs(DuplicateIdMsg) =>
    \E k \in 1..Len(Sections) :
      /\ StructureOk(SubSeq(Sections, 1, k))
      /\ LET upTo == allTasks(SubSeq(Sections, 1, k))
             own == Len(Get(Sections[k].tasks))
         IN  \E j \in (Len(upTo) - own + 1)..Len(upTo) :
               upTo[j].id = Get(dataError).taskId /\ Repeats(upTo, j)

\* a duplicate reported in the first section while the second section is
\* structurally invalid
C2_Witness ==
  /\ RejectedAs(DuplicateIdMsg)
  /\ Len(Sections) = 2
  /\ validateSection(Sections[1]) = None
  /\ validateSection(Sections[2]) # None

\* C3: when all structural checks pass and the schedule has both a repeated id
\* and an `after` naming no task, validateGanttData reports the duplicate-ID
\* error for the first task in scan order whose id was already seen, not the
\* dependency error.
C3_DuplicateBeforeDependency ==
  (Validated /\ HasSections /\ StructureOk(Sections)
     /\ (\E j \in 1..Len(Flat) : Repeats(Flat, j))
     /\ (\E j \in 1..Len(Flat) : Dangles(Flat, j)))
  => LET j == First({k \in 1..Len(Flat) : Repeats(Flat, k)})
     IN  dataError = Some(Message(DuplicateIdMsg, Flat[j].id, <<>>, <<>>))

\* the duplicate is reported although a dangling dependency comes before it
C3_Witness ==
  /\ RejectedAs(DuplicateIdMsg) /\ StructureOk(Sections)
  /\ Len(Flat) = 2 /\ Dangles(Flat, 1) /\ Repeats(Flat, 2)

\* C4: in every accepted schedule the task ids are pairwise distinct, within a
\* section and across sections.
C4_AcceptedIdsDistinct ==
  Accepted => \A i, j \in 1..Len(Flat) : i # j => Flat[i].id # Flat[j].id

\* an accepted schedule with tasks in two sections
C4_Witness ==
  /\ Accepted /\ Len(Sections) = 2 /\ Len(Flat) = 2
  /\ Len(Get(Sections[1].tasks)) = 1

\* C5: in every accepted schedule each `after` that is set is the id of a task
\* of the schedule, before or after it; and when the structural and duplicate
\* checks pass, the schedule is rejected exactly when some `after` names no
\* task, with the dependency error of the first such task in scan order.
C5_DependenciesExist ==
  /\ Accepted => \A j \in 1..Len(Flat) : ~Dangles(Flat, j)
  /\ (Validated /\ HasSections /\ Len(Sections) > 0 /\ StructureOk(Sections)
        /\ ~(\E j \in 1..Len(Flat) : Repeats(Flat, j)))
     => LET dangling == {k \in 1..Len(Flat) : Dangles(Flat, k)}
        IN  IF dangling = {} THEN dataError = None
            ELSE dataError = Some(Message(NonExistentMsg, Flat[First(dangling)].id,
                                          <<>>, Get(Flat[First(dangling)].after)))

\* an accepted schedule whose first task depends on a task of a later section
C5_Witness ==
  /\ Accepted /\ Len(Sections) = 2 /\ Len(Flat) = 2
  /\ Len(Get(Sections[1].tasks)) = 1
  /\ Flat[1].after = Some(Flat[2].id)

\* a task has a start date: start is neither empty nor blank
HasStart(t) == \E i \in 1..Len(t.start) : t.start[i] \notin WhiteSpace
\* a task has a dependency: after is a non-empty string
HasAfter(t) == IsSome(t.after) /\ Get(t.after) # <<>>

\* C8, as claimed: every task of an accepted schedule has exactly one of a
\* non-empty start and an `after`.
C8_ExactlyOneOfStartAndAfter ==
  Accepted => \A j \in 1..Len(Flat) : HasStart(Flat[j]) # HasAfter(Flat[j])

\* C8, amended: every task of an accepted schedule has a non-empty start or an
\* `after`, possibly both; a task with neither is never accepted.
C8_StartOrAfter ==
  Accepted => \A j \in 1..Len(Flat) : HasStart(Flat[j]) \/ HasAfter(Flat[j])

\* an accepted schedule with a task that has both a start date and a dependency
C8_Witness ==
  /\ Accepted /\ Len(Flat) = 2
  /\ HasStart(Flat[1]) /\ HasAfter(Flat[1]) /\ Flat[1].after = Some(Flat[2].id)

----------------------------------------------------------------------------
(* Properties of validateTask (SpecTask) *)

TaskValidated == pc = "validateTask"

\* a string is empty or made of white space only
Blank(str) == \A i \in 1..Len(str) : str[i] \in WhiteSpace

\* the status list contains the milestone tag
TaggedMilestone(t) ==
  IsSome(t.status) /\ Milestone \in {Get(t.status)[i] : i \in 1..Len(Get(t.status))}

\* one or more digits followed by exactly one of d, w, h, m
Shorthand(str) ==
  \E n \in 1..Len(str) :
    /\ Len(str) = n + 1
    /\ \A i \in 1..n : str[i] \in Digit
    /\ \E u \in DurationUnit : <<str[n + 1]>> = u

AllDigits(str) == \A i \in 1..Len(str) : str[i] \in Digit

\* the strict YYYY-MM-DD form
DateForm(str) ==
  /\ Len(str) = 10
  /\ AllDigits(SubSeq(str, 1, 4)) /\ str[5] = "-"
  /\ AllDigits(SubSeq(str, 6, 7)) /\ str[8] = "-"
  /\ AllDigits(SubSeq(str, 9, 10))

\* id, name and start/after are valid
FieldsValid(t) == ~Blank(t.id) /\ ~Blank(t.name) /\ (HasStart(t) \/ HasAfter(t))

\* the duration is valid: a Duration with a recognized unit and a positive
\* value (or zero on a milestone), or a shorthand or date string
DurationValid(t) ==
  \/ /\ t.duration.kind = "object"
     /\ t.duration.unit \in DurationUnit
     /\ t.duration.value > 0 \/ (t.duration.value = 0 /\ TaggedMilestone(t))
  \/ /\ t.duration.kind = "string"
     /\ Shorthand(t.duration.str) \/ DateForm(t.duration.str)

\* C6: for a structured Duration on a task whose id, name and start/after are
\* valid, validateTask returns 'invalid duration value' if value < 0, or if
\* value = 0 and the status list does not contain milestone; with a recognized
\* unit it accepts value = 0 when the status list contains milestone, in any
\* position, and every value > 0.
C6_ZeroDurationOnlyForMilestones ==
  (TaskValidated /\ task.duration.kind = "object" /\ FieldsValid(task)) =>
    LET v == task.duration.value
        invalidValue == Some(Message(InvalidValueMsg, task.id, <<>>, NumToStr(v)))
    IN  /\ v < 0 => taskError = invalidValue
        /\ (v = 0 /\ ~TaggedMilestone(task)) => taskError = invalidValue
        /\ (v = 0 /\ TaggedMilestone(task) /\ task.duration.unit \in DurationUnit)
             => taskError = None
        /\ (v > 0 /\ task.duration.unit \in DurationUnit) => taskError = None

\* a zero duration accepted on a task whose second tag is milestone
C6_Witness ==
  /\ TaskValidated /\ taskError = None
  /\ task.duration.kind = "object" /\ task.duration.value = 0
  /\ task.status = Some(<<Done, Milestone>>)

\* C7: a task with valid id and name, empty start and no `after` is rejected
\* with 'missing a start date or dependency'; a task with `after` set and empty
\* start, and otherwise valid fields, is accepted.
C7_DependencyStandsInForStart ==
  (TaskValidated /\ ~Blank(task.id) /\ ~Blank(task.name) /\ task.start = <<>>) =>
    /\ task.after = None
         => taskError = Some(Message(MissingStartMsg, task.id, sectionName, <<>>))
    /\ (HasAfter(task) /\ DurationValid(task)) => taskError = None

\* a task with a dependency and an empty start, accepted
C7_Witness ==
  /\ TaskValidated /\ taskError = None
  /\ task.start = <<>> /\ task.after = Some(IdB)

\* C9: for a task whose duration is a non-empty string (id, name, start/after
\* valid), validateTask accepts it iff the whole string is digits followed by
\* one of d, w, h, m, or has the YYYY-MM-DD form; every other string yields
\* 'invalid duration format'.
C9_StringDurationForms ==
  (TaskValidated /\ FieldsValid(task) /\ task.duration.kind = "string"
     /\ task.duration.str # <<>>) =>
    IF Shorthand(task.duration.str) \/ DateForm(task.duration.str)
    THEN taskError = None
    ELSE taskError = Some(Message(InvalidFormatMsg, task.id, <<>>, task.duration.str))

\* a date with a one-digit month, rejected for its format
C9_Witness ==
  /\ TaskValidated /\ FieldsValid(task)
  /\ task.duration.kind = "string" /\ Len(task.duration.str) = 9
  /\ IsSome(taskError) /\ Get(taskError).template = InvalidFormatMsg

\* the rules of validateTask, in the order of the claim
RuleBroken(t) ==
  << Blank(t.id),
     Blank(t.name),
     ~HasStart(t) /\ ~HasAfter(t),
     t.duration.kind = "undefined" \/ (t.duration.kind = "string" /\ t.duration.str = <<>>),
     t.duration.kind = "string" /\ ~Shorthand(t.duration.str) /\ ~DateForm(t.duration.str),
     /\ t.duration.kind = "object"
     /\ t.duration.value < 0 \/ (t.duration.value = 0 /\ ~TaggedMilestone(t)),
     t.duration.kind = "object" /\ t.duration.unit \notin DurationUnit >>

RuleMsg ==
  << MissingIdMsg, MissingNameMsg, MissingStartMsg, MissingDurationMsg,
     InvalidFormatMsg, InvalidValueMsg, InvalidUnitMsg >>

BrokenRules(t) == {i \in 1..Len(RuleMsg) : RuleBroken(t)[i]}

\* C10: validateTask reports exactly one error, that of the first failing check
\* in the order: missing ID, missing name, missing start date or dependency,
\* missing duration, invalid duration format, invalid duration value, invalid
\* duration unit; and no error when no check fails.
C10_FirstFailingCheck ==
  TaskValidated =>
    IF BrokenRules(task) = {} THEN taskError = None
    ELSE IsSome(taskError) /\ Get(taskError).template = RuleMsg[First(BrokenRules(task))]

\* a task breaking four rules, reported for its missing id
C10_Witness ==
  /\ TaskValidated /\ BrokenRules(task) = {1, 2, 6, 7}
  /\ IsSome(taskError) /\ Get(taskError).template = MissingIdMsg

----------------------------------------------------------------------------
(* The order of the structural checks (Spec) *)

\* a section has no tasks list, or an empty one
NoTasks(sec) == ~IsSome(sec.tasks) \/ Get(sec.tasks) = <<>>

\* the tasks of a section that break a rule of validateTask
BadTasks(sec) == {j \in 1..Len(Get(sec.tasks)) : BrokenRules(Get(sec.tasks)[j]) # {}}

\* a section fails a structural check
SectionFails(sec) == Blank(sec.name) \/ NoTasks(sec) \/ BadTasks(sec) # {}

\* the error of a failing section: its name, then its tasks list, then its
\* first failing task with that task's first broken rule
SectionErrorIs(sec, e) ==
  IF Blank(sec.name) THEN e = Message(SectionNoNameMsg, <<>>, <<>>, <<>>)
  ELSE IF NoTasks(sec) THEN e = Message(SectionNoTasksMsg, <<>>, sec.name, <<>>)
  ELSE LET t == Get(sec.tasks)[First(BadTasks(sec))]
           rule == First(BrokenRules(t))
       IN  /\ e.template = RuleMsg[rule]
           /\ rule > 1 => e.taskId = t.id
           /\ rule < 5 => e.section = sec.name

StructuralMsgs ==
  {SectionNoNameMsg, SectionNoTasksMsg, MissingIdMsg, MissingNameMsg, MissingStartMsg,
   MissingDurationMsg, InvalidFormatMsg, InvalidValueMsg, InvalidUnitMsg}

FailingSections == {k \in 1..Len(Sections) : SectionFails(Sections[k])}

\* C11: validateGanttData reports 'Gantt data is required' for a null schedule,
\* then 'must have at least one section' for an absent or empty sections list;
\* then the sections are scanned in input order, and within a section the name
\* check precedes the no-tasks check, which precedes the checks of its tasks in
\* task order: a reported structural error is that of the earliest failing
\* section and, within it, of the earliest failing check, and it is reported
\* unless an id repeats in the sections before that one.
C11_EarliestStructuralError ==
  Validated =>
    IF ~IsSome(data) THEN dataError = Some(Message(DataRequiredMsg, <<>>, <<>>, <<>>))
    ELSE IF ~HasSections \/ Sections = <<>> THEN
      dataError = Some(Message(NoSectionsMsg, <<>>, <<>>, <<>>))
    ELSE
      /\ (IsSome(dataError) /\ Get(dataError).template \in StructuralMsgs) =>
            /\ FailingSections # {}
            /\ SectionErrorIs(Sections[First(FailingSections)], Get(dataError))
      /\ FailingSections # {} =>
            LET k == First(FailingSections)
                before == allTasks(SubSeq(Sections, 1, k - 1))
            IN  (\A j \in 1..Len(before) : ~Repeats(before, j)) =>
                  /\ IsSome(dataError)
                  /\ SectionErrorIs(Sections[k], Get(dataError))

\* two failing sections: the first for its second task, the second for its
\* name and its tasks; the task error of the first is reported
C11_Witness ==
  /\ Validated /\ HasSections /\ Len(Sections) = 2
  /\ FailingSections = {1, 2}
  /\ ~Blank(Sections[1].name) /\ BadTasks(Sections[1]) = {2}
  /\ Blank(Sections[2].name) /\ NoTasks(Sections[2])
  /\ IsSome(dataError) /\ Get(dataError).template = MissingStartMsg

----------------------------------------------------------------------------
(* Properties of convertTask (SpecTask) *)

TaskConverted == pc = "convertTask"

\* the tags of a non-empty status list, separated by a comma and a space
RECURSIVE TagsText(_)
TagsText(tags) ==
  IF Len(tags) = 1 THEN tags[1]
  ELSE tags[1] \o <<",", " ">> \o TagsText(Tail(tags))

\* the status field and its separator: nothing when the list is absent or empty
StatusField(t) ==
  IF ~IsSome(t.status) \/ Get(t.status) = <<>> THEN <<>>
  ELSE TagsText(Get(t.status)) \o <<" ", ":", " ">>

\* the dependency when `after` is set, otherwise the raw start
StartField(t) ==
  IF HasAfter(t) THEN <<"a", "f", "t", "e", "r", " ">> \o Get(t.after) ELSE t.start

\* value and unit concatenated for a Duration, the raw string otherwise
DurationField(t) ==
  IF t.duration.kind = "object" THEN NumToStr(t.duration.value) \o t.duration.unit
  ELSE t.duration.str

\* C12: convertTask returns four spaces followed by the fields joined with
\* ' : ' in the order name, status tags joined with ', ' (the field is left out
\* when the status is absent or empty), id, 'after <after>' when `after` is set
\* and the raw start otherwise, then the duration as '<value><unit>' for a
\* Duration and as the unchanged string otherwise.
C12_TaskLine ==
  TaskConverted =>
    line = <<" ", " ", " ", " ">> \o task.name \o <<" ", ":", " ">>
           \o StatusField(task)
           \o task.id \o <<" ", ":", " ">>
           \o StartField(task) \o <<" ", ":", " ">>
           \o DurationField(task)

\* a task with two tags, a start date and a dependency: the dependency is emitted
C12_Witness ==
  /\ TaskConverted
  /\ IsSome(task.status) /\ Len(Get(task.status)) = 2
  /\ HasStart(task) /\ HasAfter(task)
  /\ task.duration.kind = "object"
  /\ line = <<" ", " ", " ", " ">> \o task.name \o <<" ", ":", " ">>
            \o TagsText(Get(task.status)) \o <<" ", ":", " ">>
            \o task.id \o <<" ", ":", " ", "a", "f", "t", "e", "r", " ">> \o Get(task.after)
            \o <<" ", ":", " ">> \o NumToStr(task.duration.value) \o task.duration.unit

----------------------------------------------------------------------------
(* Properties of convertConfig (SpecConfig) *)

ConfigConverted == pc = "convertConfig"

\* a string field is set: present and not empty
IsSet(o) == IsSome(o) /\ Get(o) # <<>>

\* the directive of a string field: one line when the field is set
Directive(keyword, o) ==
  IF IsSet(o) THEN <<(<<" ", " ", " ", " ">> \o keyword \o <<" ">> \o Get(o))>> ELSE <<>>

\* the excluded days separated by a comma and a space
RECURSIVE DaysText(_)
DaysText(days) ==
  IF Len(days) = 1 THEN days[1]
  ELSE days[1] \o <<",", " ">> \o DaysText(Tail(days))

ExcludesDirective(o) ==
  IF IsSome(o) /\ Get(o) # <<>>
  THEN <<(<<" ", " ", " ", " ", "e", "x", "c", "l", "u", "d", "e", "s", " ">>
          \o DaysText(Get(o)))>>
  ELSE <<>>

\* C13: convertConfig emits the directives in the fixed order title, dateFormat,
\* axisFormat, tickInterval, excludes, each present iff its field is set
\* (excludes only for a non-empty list, its days joined with ', ' in order);
\* enableClick, displayMode and excludeDates produce and change no line, and
\* the empty config yields no lines.
C13_ConfigDirectives ==
  ConfigConverted =>
    /\ directives =
          Directive(<<"t", "i", "t", "l", "e">>, config.title)
          \o Directive(<<"d", "a", "t", "e", "F", "o", "r", "m", "a", "t">>, config.dateFormat)
          \o Directive(<<"a", "x", "i", "s", "F", "o", "r", "m", "a", "t">>, config.axisFormat)
          \o Directive(<<"t", "i", "c", "k", "I", "n", "t", "e", "r", "v", "a", "l">>,
                       config.tickInterval)
          \o ExcludesDirective(config.excludes)
    /\ config = EmptyConfig => directives = <<>>

\* all five directives emitted for a config that also sets the three other fields
C13_Witness ==
  /\ ConfigConverted
  /\ Len(directives) = 5
  /\ IsSome(config.excludes) /\ Len(Get(config.excludes)) = 2
  /\ IsSome(config.excludeDates) /\ config.enableClick = Some(TRUE)
  /\ IsSome(config.displayMode)

----------------------------------------------------------------------------
(* The lines of the emitted text (Spec) *)

\* the line of a task, as C12 has it
TaskLine(t) ==
  <<" ", " ", " ", " ">> \o t.name \o <<" ", ":", " ">> \o StatusField(t)
  \o t.id \o <<" ", ":", " ">> \o StartField(t) \o <<" ", ":", " ">> \o DurationField(t)

\* the directive lines of a config, as C13 has them
DirectiveLines(cfg) ==
  Directive(<<"t", "i", "t", "l", "e">>, cfg.title)
  \o Directive(<<"d", "a", "t", "e", "F", "o", "r", "m", "a", "t">>, cfg.dateFormat)
  \o Directive(<<"a", "x", "i", "s", "F", "o", "r", "m", "a", "t">>, cfg.axisFormat)
  \o Directive(<<"t", "i", "c", "k", "I", "n", "t", "e", "r", "v", "a", "l">>, cfg.tickInterval)
  \o ExcludesDirective(cfg.excludes)

\* the header line of each section followed by the lines of its tasks
RECURSIVE SectionBlocks(_)
SectionBlocks(secs) ==
  IF secs = <<>> THEN <<>>
  ELSE <<(<<" ", " ", " ", " ", "s", "e", "c", "t", "i", "o", "n", " ">> \o secs[1].name)>>
       \o [j \in 1..Len(Get(secs[1].tasks)) |-> TaskLine(Get(secs[1].tasks)[j])]
       \o SectionBlocks(Tail(secs))

ExpectedLines ==
  <<(<<"g", "a", "n", "t", "t">>)>>
  \o (IF IsSome(Get(data).config) THEN DirectiveLines(Get(Get(data).config)) ELSE <<>>)
  \o SectionBlocks(Sections)

\* text made of the lines, with a line break between consecutive lines
RECURSIVE Lines2Text(_)
Lines2Text(lines) ==
  IF Len(lines) = 1 THEN lines[1]
  ELSE lines[1] \o <<"\n">> \o Lines2Text(Tail(lines))

\* the positions of a text where a line starts
LineStarts(text) == {1} \cup {i + 1 : i \in {k \in 1..Len(text) : text[k] = "\n"}}

\* C14: for every valid schedule the emitted text is exactly the line 'gantt',
\* the config's directive lines, then for each section in order its header
\* '    section <name>' and one line per task in order, joined with newlines;
\* the text has exactly 1 + directives + sections + tasks lines, and every
\* line but the first begins with four spaces.
C14_LineStructure ==
  (Converted /\ result.success) =>
    LET text == Get(result.syntax)
    IN  /\ text = Lines2Text(ExpectedLines)
        /\ Cardinality(LineStarts(text)) = Len(ExpectedLines)
        /\ Len(ExpectedLines) =
             1 + (IF IsSome(Get(data).config)
                    THEN Len(DirectiveLines(Get(Get(data).config))) ELSE 0)
               + Len(Sections) + Len(Flat)
        /\ \A i \in LineStarts(text) \ {1} :
             /\ i + 3 <= Len(text)
             /\ SubSeq(text, i, i + 3) = <<" ", " ", " ", " ">>

----------------------------------------------------------------------------
(* The input is left as it was; malformed input; cycles (Spec) *)

\* C16: validateGanttData and convertToMermaidSyntax leave the schedule they are
\* given unchanged (its config, its sections, their task sequences and every
\* field of every task), whether they accept it, reject it or fail.
C16_InputUnchanged ==
  [][(pc \in {"build", "ready"} /\ pc' \notin {"build", "ready"}) => data' = data]_vars

\* a converted schedule that still has its two tasks and the status list of the second
C16_Witness ==
  /\ Converted /\ result.success
  /\ Len(Flat) = 2 /\ Flat[2].status = Some(<<Crit, Done>>)

\* C17: convertToMermaidSyntax never raises: for every input, a null schedule,
\* an absent sections list, a section without a tasks list, a null section or a
\* null task included, it returns a failed result carrying a validation error.
C17_NeverThrows ==
  /\ pc # "threw"
  /\ (Converted /\ validateGanttData(data) # None)
       => ~result.success /\ IsSome(result.error)

\* an index is reached from the indexes of S by following `after` at most n times
RECURSIVE DependsOn(_, _, _)
DependsOn(tasks, S, n) ==
  IF n = 0 THEN {}
  ELSE LET next == {k \in 1..Len(tasks) :
                      \E i \in S : HasAfter(tasks[i]) /\ Get(tasks[i].after) = tasks[k].id}
       IN  next \cup DependsOn(tasks, next, n - 1)

\* the `after` references of the tasks form a cycle
Cyclic(tasks) == \E j \in 1..Len(tasks) : j \in DependsOn(tasks, {j}, Len(tasks))

\* C18: the validator checks that every `after` names a task of the schedule,
\* not that the references are acyclic: a structurally valid schedule with
\* distinct ids and no dangling `after` whose references form a cycle (a task
\* depending on itself, two tasks depending on each other) is accepted by
\* validateGanttData and converted successfully.
C18_CyclesAccepted ==
  (HasSections /\ Sections # <<>> /\ (Validated \/ Converted)
     /\ FailingSections = {}
     /\ (\A j \in 1..Len(Flat) : ~Repeats(Flat, j) /\ ~Dangles(Flat, j))
     /\ Cyclic(Flat))
  => /\ Validated => dataError = None
     /\ Converted => result.success /\ IsSome(result.syntax)

\* two tasks depending on each other, converted
C18_Witness ==
  /\ Converted /\ result.success /\ Len(Flat) = 2
  /\ Flat[1].id # Flat[2].id
  /\ Flat[1].after = Some(Flat[2].id) /\ Flat[2].after = Some(Flat[1].id)

----------------------------------------------------------------------------
(* Properties of the Mermaid component (SpecMermaid) *)

CallsOf(fn) == {k \in 1..Len(calls) : calls[k] = fn}

\* the instances that have called mermaid.render: their calls are pending, or
\* settled into an svg or an error
Rendering == {call.inst : call \in pending}
             \cup {i \in Instances : instances[i].renderedSvg # <<>> \/ IsSome(instances[i].error)}

\* C19: across all component instances and every interleaving of their render
\* attempts, mermaid.initialize is called at most once, and before the first
\* mermaid.render call; later render attempts do not initialize again.
C19_InitializedOnce ==
  /\ Cardinality(CallsOf("initialize")) <= 1
  /\ CallsOf("render") # {} => calls[1] = "initialize"

\* two instances have called mermaid.render, the first call settled and the
\* second pending, after one initialization
C19_Witness ==
  /\ calls = <<"initialize", "render", "render">>
  /\ Cardinality(pending) = 1
  /\ Cardinality(Rendering) = 2

\* C20: every change of an instance's chart prop to a non-empty string, whatever
\* the earlier charts and the outcomes of their renders (resolved, rejected,
\* pending), makes a new mermaid.render call carrying the new chart.
C20_ChartChangeRenders ==
  [][\A i \in Instances :
       (instances[i].mounted /\ instances'[i].chart # instances[i].chart
          /\ instances'[i].chart # <<>>)
       => /\ Len(calls') > Len(calls)
          /\ calls'[Len(calls')] = "render"
          /\ RenderCall(Len(calls'), i, instances'[i].uniqueId, instances'[i].chart)
               \in pending' \ pending]_vars

\* C21: when a mermaid.render call rejects, the instance that awaited it stores
\* as its error the message of the Error caught, or "Failed to render diagram"
\* when what was caught is not an Error, and stores the empty string as its svg;
\* nothing is thrown.
C21_RejectionStored ==
  [][\A call \in pending, err \in Rejections :
       RenderRejects(call, err)
       => /\ instances'[call.inst].error
               = Some(IF err.isError THEN err.message ELSE FailedMsg)
          /\ instances'[call.inst].renderedSvg = <<>>
          /\ pc' = pc]_vars

\* the render of a first chart resolved, the render of a second chart rejected
\* with an Error: its message is stored and the svg is empty
C21_Witness ==
  /\ calls = <<"initialize", "render", "render">>
  /\ pending = {}
  /\ instances[1].chart = ChartB
  /\ instances[1].error = Some(ParseError)
  /\ instances[1].renderedSvg = <<>>

\* C22: when the chart of an instance changes from one rendered text to another,
\* the identifier passed to mermaid.render for the new text differs from the one
\* passed for the text before it.
C22_IdentifierNotReused ==
  [][\A i \in Instances : \A call \in pending' \ pending :
       (call.inst = i /\ instances[i].mounted /\ instances[i].chart # <<>>
          /\ call.chart # instances[i].chart)
       => call.id # instances[i].uniqueId]_vars

\* C24: once every pending mermaid.render call has settled, the svg an instance
\* holds for a non-empty chart is the svg of that chart, the latest one, or is
\* empty: no svg of a superseded chart remains.
C24_LatestOutcomeDisplayed ==
  pending = {}
  => \A i \in Instances :
       (instances[i].mounted /\ instances[i].chart # <<>>)
       => instances[i].renderedSvg \in {<<>>, SvgOf(instances[i].chart)}

----------------------------------------------------------------------------
(* Properties of the GanttChart component (SpecGantt) *)

\* C23: whenever GanttChart is rendered with a schedule, then if the schedule is
\* valid every mermaid.render call made carries the syntax convertToMermaidSyntax
\* returns for it, and if it is not valid no mermaid.render call is made and the
\* component shows the validation error.
C23_TextOnlyForValidData ==
  [][(pc = "ready" \/ data' # data)
     => LET r == convertToMermaidSyntax(data')
        IN  IF r.success
            THEN \A call \in pending' \ pending : call.chart = Get(r.syntax)
            ELSE /\ pending' \ pending = {}
                 /\ pc' = "ganttError"
                 /\ result'.error = validateGanttData(data')]_vars

----------------------------------------------------------------------------
(* Fields of the emitted task lines (SpecTask) *)

\* the fields of a text: what stands between the separators " : "
RECURSIVE SplitFields(_, _)
SplitFields(text, field) ==
  IF text = <<>> THEN <<field>>
  ELSE IF Len(text) >= Len(Sep) /\ SubSeq(text, 1, Len(Sep)) = Sep
       THEN <<field>> \o SplitFields(SubSeq(text, Len(Sep) + 1, Len(text)), <<>>)
       ELSE SplitFields(Tail(text), Append(field, Head(text)))

\* the fields of a task line, after its indentation
FieldsOf(ln) == SplitFields(SubSeq(ln, Len(Indent) + 1, Len(ln)), <<>>)

ZeroShorthand(t) ==
  /\ t.duration.kind = "string"
  /\ Shorthand(t.duration.str)
  /\ \A i \in 1..(Len(t.duration.str) - 1) : t.duration.str[i] = "0"

\* C26: a task whose duration is a shorthand string with numeric part zero, and
\* whose id, name and start/after are valid, is accepted by validateTask with
\* or without the milestone tag, and the last field of its emitted line is that
\* string.
C26_ZeroShorthandAccepted ==
  /\ (TaskValidated /\ ZeroShorthand(task) /\ FieldsValid(task)) => taskError = None
  /\ (TaskConverted /\ ZeroShorthand(task))
     => FieldsOf(line)[Len(FieldsOf(line))] = task.duration.str

\* a task without the milestone tag and with the duration "00d" is accepted
C26_Witness ==
  /\ TaskValidated
  /\ task.duration = StrDuration(<<"0", "0", "d">>)
  /\ ~TaggedMilestone(task)
  /\ taskError = None

----------------------------------------------------------------------------
(* White space in the fields (Spec) *)

\* a string is not empty and made of white space only
WhiteSpaceOnly(str) == str # <<>> /\ Blank(str)

\* the schedule in hand has one section with one task
OneTaskSchedule ==
  /\ HasSections /\ Len(Sections) = 1
  /\ ~Sections[1].isNull /\ IsSome(Sections[1].tasks)
  /\ Len(Get(Sections[1].tasks)) = 1 /\ ~Get(Sections[1].tasks)[1].isNull

\* C27: on a schedule of one section with one task, a section name, task id,
\* task name or start (without dependency) of white space only is rejected with
\* the error of the missing field, the earlier fields being valid; a dependency
\* of white space only passes the start-or-dependency check, so that the task
\* passes validateTask and the schedule is rejected only at the check that the
\* dependency exists.
C27_WhiteSpaceFields ==
  (Validated /\ OneTaskSchedule)
  => LET sec == Sections[1]
         t == Get(sec.tasks)[1]
     IN  /\ WhiteSpaceOnly(sec.name)
            => dataError = Some(Message(SectionNoNameMsg, <<>>, <<>>, <<>>))
         /\ (~Blank(sec.name) /\ WhiteSpaceOnly(t.id))
            => dataError = Some(Message(MissingIdMsg, <<>>, sec.name, <<>>))
         /\ (~Blank(sec.name) /\ ~Blank(t.id) /\ WhiteSpaceOnly(t.name))
            => dataError = Some(Message(MissingNameMsg, t.id, sec.name, <<>>))
         /\ (~Blank(sec.name) /\ ~Blank(t.id) /\ ~Blank(t.name)
               /\ WhiteSpaceOnly(t.start) /\ ~HasAfter(t))
            => dataError = Some(Message(MissingStartMsg, t.id, sec.name, <<>>))
         /\ (~Blank(sec.name) /\ ~Blank(t.id) /\ ~Blank(t.name) /\ DurationValid(t)
               /\ IsSome(t.after) /\ WhiteSpaceOnly(Get(t.after)))
            => dataError = Some(Message(NonExistentMsg, t.id, <<>>, Get(t.after)))

\* a task without a start whose dependency is one space has passed validateTask
\* and is rejected for its non-existent dependency
C27_Witness ==
  /\ Validated
  /\ data = OneTask(NameS, GanttTask(IdA, NameN, <<>>, ObjDuration(1, UnitD), None, Some(OneSpace)))
  /\ RejectedAs(NonExistentMsg)

=============================================================================
